---- MODULE Spec2Model ----
(***************************************************************************)
(* Model of the flysms request lifecycle engine (package sms):             *)
(*   - Server.createMessage  : the HTTP handler (one goroutine per request)*)
(*   - Server.handleRequests : the dispatch loop, paced by time.Tick       *)
(*   - Server.processRequest : the worker (coordinating goroutine plus a   *)
(*                             background goroutine calling the adapter)   *)
(*                                                                         *)
(* Time is discrete and kept as countdowns: ttl[r] is what is left of the  *)
(* record's context deadline and tickIn what is left until the ticker's    *)
(* next tick.  A timer fires exactly when its countdown reaches zero.      *)
(* Steps of goroutines that are not blocked take no time: time passes only *)
(* when every goroutine is blocked on a channel, a timer or the adapter    *)
(* call.  Within one instant every interleaving of the enabled steps is    *)
(* explored.  An unrecovered panic in a goroutine ends the process.        *)
(***************************************************************************)
EXTENDS Integers, Sequences, FiniteSets, TLC

\* ------------------------------------------------------------------ bounds
NReq == 3      \* HTTP requests that arrive during a run

Reqs == 1..NReq
NoReq == 0

VARIABLES
  buf,            \* Server.reqCh capacity (cfg.Buffer)
  reqTimeout,     \* Server.reqTimeout  (D)
  throttleRate,   \* Server.throttleRate (T)
  messageClient,  \* Server.messageClient # nil
  provider,       \* what the downstream provider answers in this run
  tickIn,         \* time left until the ticker's next tick
  tickPending,    \* the ticker channel (capacity 1) holds a tick
  reqCh,          \* Server.reqCh: buffered records, oldest first
  dpc,            \* handleRequests: "recv" | "parked" | "tick"
  held,           \* handleRequests: req, the record taken from reqCh
  hpc,            \* createMessage per request: "idle" | "accepted" | "wait" | "done"
  ttl,            \* req.ctx: time left until the deadline (-1: the deadline is past)
  resp,           \* what sendResponse wrote to the caller, per request
  nResp,          \* number of sendResponse calls, per request
  wpc,            \* processRequest, coordinating goroutine: "none" | "select" | "exit"
  ipc,            \* processRequest, background goroutine: "none" | "calling" | "closing" | "exit"
  done,           \* processRequest: the done channel is closed
  res,            \* processRequest: the shared res variable
  calls,          \* number of messageClient.createMessage calls per request
  panicked,       \* a goroutine panicked: the process is gone
  acceptLog,      \* history: records in the order reqCh accepted them
  spawnLog,       \* history: records in the order their workers were spawned
  spawnAge,       \* history: time since the worker was spawned (-1: not spawned)
  failed,         \* history: the request failed a check of createMessage
  expired,        \* history: time has passed since the record's deadline
  call,           \* a function under test: its receiver and arguments
  ret             \* the values its calls returned, in order

vars == << buf, reqTimeout, throttleRate, messageClient, provider, tickIn, tickPending,
           reqCh, dpc, held, hpc, ttl, resp, nResp, wpc, ipc, done, res,
           calls, panicked, acceptLog, spawnLog, spawnAge, failed, expired, call, ret >>

cfgVars  == << buf, reqTimeout, throttleRate, messageClient, provider >>
wrkVars  == << wpc, ipc, done, res, calls >>
hstVars  == << acceptLog, spawnLog, spawnAge, failed, expired >>
fnVars   == << call, ret >>

\* ------------------------------------------------------------ responses
\* sms.Content (Created is left out: it does not take part in any decision).
Content(id, rcp, org, msg, st) ==
  [ID |-> id, Recipient |-> rcp, Originator |-> org, Message |-> msg, Status |-> st]

ZeroContent == Content("", 0, "", "", "")

\* sms.Response: statusCode, Success, Data, Error.
Response(code, ok, err) ==
  [statusCode |-> code, Success |-> ok, Data |-> ZeroContent, Error |-> err]

\* var res Response: the zero value
ZeroResponse == Response(0, FALSE, "")

TooManyRequests == Response(429, FALSE, "Request limit exceeded (request has been dropped)")

RequestTimeout == Response(408, FALSE, "Request timeout (process took to long to finish)")

ClientNotSet == Response(500, FALSE, "Internal error (API client not set)")

RequestFailed == Response(500, FALSE, "Internal error (API request failed)")

\* ------------------------------------------------------- provider adapter
\* sms.MessageItem and sms.MessageError, as decoded from the provider's body.
MessageItem(rcp, st) == [Recipient |-> rcp, Status |-> st]

MessageError(code, descr) == [Code |-> code, Description |-> descr]

\* What a call of the provider comes to: the step of Client.createMessage
\* that fails, if one does ("request": http.NewRequest, "transport":
\* httpClient.Do, "read": ioutil.ReadAll, "decode": json.Unmarshal into
\* MessageCreated, "decodeErrors": json.Unmarshal into MessageErrors), the
\* status code of the reply and the fields of its JSON body.
Reply(failure, code, id, items, errors) ==
  [failure |-> failure, statusCode |-> code, id |-> id, originator |-> "MessageBird",
   body |-> "Hello", items |-> items, errors |-> errors]

ProviderReplies ==
  { Reply("transport", 0, "", << >>, << >>),
    Reply("none", 201, "e8077d803532c0b5937c639b60216938",
          << MessageItem(31612345, "sent"), MessageItem(31698765, "scheduled") >>, << >>),
    Reply("none", 201, "e8077d803532c0b5937c639b60216938", << >>, << >>),
    Reply("none", 401, "",
          << >>, << MessageError(2, "Request not allowed (incorrect access_key)"),
                    MessageError(9, "no (correct) recipients found") >>),
    Reply("none", 200, "", << >>, << >>) }

\* return nil, http.StatusInternalServerError, fmt.Errorf(...)
AdapterError ==
  [kind |-> "err", statusCode |-> 500, ID |-> "", Originator |-> "", Body |-> "",
   items |-> << >>, errors |-> << >>]

\* Mutant of CreateMessage: the reply's status code, not the id of its body,
\* tells a created message from an error list.
CreateMessage_ByStatus(p) ==
  IF p.failure \in {"request", "transport", "read", "decode"} THEN AdapterError
  ELSE IF p.statusCode = 201
    THEN [kind |-> "created", statusCode |-> p.statusCode, ID |-> p.id,
          Originator |-> p.originator, Body |-> p.body, items |-> p.items, errors |-> << >>]
  ELSE IF p.failure = "decodeErrors" THEN AdapterError
  ELSE [kind |-> "errors", statusCode |-> p.statusCode, ID |-> "", Originator |-> "",
        Body |-> "", items |-> << >>, errors |-> p.errors]

\* Client.createMessage: an error for a failed step; otherwise the body decoded
\* as MessageCreated when it carries an id and as MessageErrors when it does
\* not, with the reply's status.
CreateMessage(p) ==
  IF p.failure \in {"request", "transport", "read", "decode"} THEN AdapterError
  ELSE IF p.id # ""
    THEN [kind |-> "created", statusCode |-> p.statusCode, ID |-> p.id,
          Originator |-> p.originator, Body |-> p.body, items |-> p.items, errors |-> << >>]
  ELSE IF p.failure = "decodeErrors" THEN AdapterError
  ELSE [kind |-> "errors", statusCode |-> p.statusCode, ID |-> "", Originator |-> "",
        Body |-> "", items |-> << >>, errors |-> p.errors]

\* What Client.createMessage can return.
AdapterResults == { CreateMessage(p) : p \in ProviderReplies }

\* The type switch of processRequest: indexes Items[0] / Errors[0].
Panics(v) ==
  \/ v.kind = "created" /\ Len(v.items) = 0
  \/ v.kind = "errors" /\ Len(v.errors) = 0

\* The worker's classification of the adapter's result.
Classify(v) ==
  IF v.kind = "err" THEN RequestFailed
  ELSE IF v.kind = "created"
    THEN [Response(v.statusCode, TRUE, "") EXCEPT
            !.Data = Content(v.ID, v.items[1].Recipient, v.Originator, v.Body,
                             v.items[1].Status)]
  ELSE Response(v.statusCode, FALSE, v.errors[1].Description)

\* --------------------------------------------------------------- Init
\* sms.Config; durations are in time units.
Config(b, d, t, c) ==
  [Buffer |-> b, ReqTimeout |-> d, ThrottleRate |-> t, MessageClient |-> c]

\* The configurations explored: with and without a client, the timeout longer
\* and shorter than the throttle rate, a buffered and an unbuffered queue.
Configs ==
  { Config(2, 2, 1, TRUE),  Config(1, 1, 2, TRUE),
    Config(2, 3, 2, FALSE), Config(1, 2, 2, FALSE),
    Config(0, 2, 1, FALSE), Config(2, 1, 2, FALSE) }

\* No function is under test.
NoCall == [fn |-> "none"]

\* NewServer(cfg) followed by Run(): the dispatch loop has created its ticker.
ServerInit ==
  /\ \E c \in Configs :
       /\ buf = c.Buffer
       /\ reqTimeout = c.ReqTimeout
       /\ throttleRate = c.ThrottleRate
       /\ messageClient = c.MessageClient
       /\ provider \in IF c.MessageClient THEN AdapterResults
                                          ELSE { CHOOSE v \in AdapterResults : v.kind = "err" }
  /\ tickIn = throttleRate
  /\ tickPending = FALSE
  /\ reqCh = << >>
  /\ dpc = "recv"
  /\ held = NoReq
  /\ hpc = [r \in Reqs |-> "idle"]
  /\ ttl = [r \in Reqs |-> 0]
  /\ resp = [r \in Reqs |-> ZeroResponse]
  /\ nResp = [r \in Reqs |-> 0]
  /\ wpc = [r \in Reqs |-> "none"]
  /\ ipc = [r \in Reqs |-> "none"]
  /\ done = [r \in Reqs |-> FALSE]
  /\ res = [r \in Reqs |-> ZeroResponse]
  /\ calls = [r \in Reqs |-> 0]
  /\ panicked = FALSE
  /\ acceptLog = << >>
  /\ spawnLog = << >>
  /\ spawnAge = [r \in Reqs |-> -1]
  /\ failed = [r \in Reqs |-> FALSE]
  /\ expired = [r \in Reqs |-> FALSE]

Init ==
  /\ ServerInit
  /\ call = NoCall
  /\ ret = << >>

\* ---------------------------------------------- createMessage: the checks
\* The limits of the field checks.
MinRecipientLen == 7
MaxRecipientLen == 15
MaxOriginatorLen == 11
MaxMessageLen == 160

\* An int64 as its sign and its decimal digits, most significant first.
Int64(neg, digits) == [neg |-> neg, digits |-> digits]

\* The number with k digits, all nines.
Nines(k) == [i \in 1..k |-> 9]

\* fmt.Sprintf("%d", n): the digits, after a minus sign for a negative number.
Sprintf(n) == IF n.neg THEN << "-" >> \o n.digits ELSE n.digits

\* A Go string, by its numbers of one-byte and of two-byte characters.
Str(ascii, wide) == [ascii |-> ascii, wide |-> wide]

\* len(s) of a Go string: its number of bytes.
ByteLen(s) == s.ascii + 2 * s.wide

\* What the handler sees of an HTTP request: the method, whether the body
\* decodes into a Request, and the decoded fields.
HTTPRequest(method, json, rcp, org, msg) ==
  [Method |-> method, decodes |-> json, Recipient |-> rcp, Originator |-> org, Message |-> msg]

Invalid(code, err) == Response(code, FALSE, err)

\* The checks of createMessage, in the order of the code; the zero Response
\* stands for a request that passes them all.
Validate(in) ==
  IF in.Method # "POST"
    THEN Invalid(405, "Request not allowed (invalid HTTP method)")
  ELSE IF ~in.decodes
    THEN Invalid(400, "Bad request (invalid payload json structure)")
  ELSE IF Len(Sprintf(in.Recipient)) < MinRecipientLen \/ Len(Sprintf(in.Recipient)) > MaxRecipientLen
    THEN Invalid(422, "Invalid parameter (recipient value is out of bounds)")
  ELSE IF ByteLen(in.Originator) = 0
    THEN Invalid(422, "Missing parameter (originator value is not present)")
  ELSE IF ByteLen(in.Originator) > MaxOriginatorLen
    THEN Invalid(422, "Invalid parameter (originator value is to long)")
  ELSE IF ByteLen(in.Message) = 0
    THEN Invalid(422, "Missing parameter (message value is not present)")
  ELSE IF ByteLen(in.Message) > MaxMessageLen
    THEN Invalid(422, "Invalid parameter (message value is to long)")
  ELSE ZeroResponse

\* Field values around the limits of the checks.
Recipients ==
  { Int64(FALSE, << 0 >>) } \cup
  { Int64(FALSE, Nines(k)) : k \in {6, 7, 15, 16} } \cup
  { Int64(TRUE, Nines(k)) : k \in {5, 6, 14, 15} }

Originators ==
  { Str(0, 0), Str(1, 0), Str(11, 0), Str(12, 0), Str(9, 1), Str(9, 2) }

Messages ==
  { Str(0, 0), Str(1, 0), Str(160, 0), Str(161, 0), Str(158, 2) }

\* Every combination of them.
HTTPRequests ==
  { HTTPRequest(m, j, rcp, org, msg) :
      m \in {"POST", "GET"}, j \in BOOLEAN, rcp \in Recipients,
      org \in Originators, msg \in Messages }

\* A request that passes every check.
ValidRequest == HTTPRequest("POST", TRUE, Int64(FALSE, Nines(11)), Str(11, 0), Str(160, 0))

\* The requests that arrive at the running server: the valid one, and the
\* ones that differ from it in the method, the body or one field.
Arrivals ==
  { ValidRequest, [ValidRequest EXCEPT !.Method = "GET"], [ValidRequest EXCEPT !.decodes = FALSE] }
    \cup { [ValidRequest EXCEPT !.Recipient = v] : v \in Recipients }
    \cup { [ValidRequest EXCEPT !.Originator = v] : v \in Originators }
    \cup { [ValidRequest EXCEPT !.Message = v] : v \in Messages }

\* Mutant of Admits: the checks do not stop a request.
Admits_All(in) == TRUE

\* The handler goes on to the admission step: no check has returned.
Admits(in) == Validate(in) = ZeroResponse

\* sendResponse(w, res); return, before the record has a context.
Answer(r, v) ==
  /\ resp' = [resp EXCEPT ![r] = v]
  /\ nResp' = [nResp EXCEPT ![r] = @ + 1]
  /\ hpc' = [hpc EXCEPT ![r] = "done"]
  /\ ttl' = ttl

\* ------------------------------------------------------ createMessage
\* The context is done and its timer released.
Cancelled == -1

\* Mutant of SendResponse: the handler writes the response and goes on waiting.
SendResponse_NoReturn(r, v) ==
  /\ resp' = [resp EXCEPT ![r] = v]
  /\ nResp' = [nResp EXCEPT ![r] = @ + 1]
  /\ hpc' = [hpc EXCEPT ![r] = IF @ = "idle" THEN "done" ELSE @]
  /\ ttl' = ttl

\* sendResponse(w, res) followed by the handler's return, which runs the
\* deferred cancel().
SendResponse(r, v) ==
  /\ resp' = [resp EXCEPT ![r] = v]
  /\ nResp' = [nResp EXCEPT ![r] = @ + 1]
  /\ hpc' = [hpc EXCEPT ![r] = "done"]
  /\ ttl' = [ttl EXCEPT ![r] = Cancelled]

\* Go's channel send: a receiver blocked on the channel gets the value at once.
ReceiverParked == dpc = "parked"

\* Mutant of BufferHasRoom: the capacity test is off by one.
BufferHasRoom_OffByOne == Len(reqCh) <= buf

\* Mutant of BufferHasRoom: the send never finds the buffer full.
BufferHasRoom_Always == TRUE

\* Go's channel send: otherwise the value goes to the buffer if it has room.
BufferHasRoom == Len(reqCh) < buf

\* Mutant of Push: the value is written in front of the values already buffered.
Push_Front(q, r) == << r >> \o q

\* Go's channel send: the value is written behind the values already buffered.
Push(q, r) == Append(q, r)

\* context.WithTimeout(context.TODO(), s.reqTimeout)
WithTimeout == reqTimeout

\* A request arrives.  One that fails a check is answered at once.  One that
\* passes gets its context and its result channel, then
\*   select { case s.reqCh <- &req: ... default: 429 }
\* Requests are numbered in the order they arrive.
Arrive(r, requests) ==
  /\ ~panicked
  /\ hpc[r] = "idle"
  /\ \A q \in Reqs : q < r => hpc[q] # "idle"
  /\ \E in \in requests :
       /\ failed' = [failed EXCEPT ![r] = Validate(in) # ZeroResponse]
       /\ IF ~Admits(in)
            THEN /\ Answer(r, Validate(in))
                 /\ UNCHANGED << reqCh, dpc, held, acceptLog >>
          ELSE IF ReceiverParked
            THEN /\ dpc' = "tick"
                 /\ held' = r
                 /\ hpc' = [hpc EXCEPT ![r] = "accepted"]
                 /\ ttl' = [ttl EXCEPT ![r] = WithTimeout]
                 /\ acceptLog' = Append(acceptLog, r)
                 /\ UNCHANGED << reqCh, resp, nResp >>
          ELSE IF BufferHasRoom
            THEN /\ reqCh' = Push(reqCh, r)
                 /\ hpc' = [hpc EXCEPT ![r] = "accepted"]
                 /\ ttl' = [ttl EXCEPT ![r] = WithTimeout]
                 /\ acceptLog' = Append(acceptLog, r)
                 /\ UNCHANGED << dpc, held, resp, nResp >>
          ELSE /\ SendResponse(r, TooManyRequests)
               /\ UNCHANGED << reqCh, dpc, held, acceptLog >>
  /\ UNCHANGED << cfgVars, fnVars, tickIn, tickPending, wrkVars, panicked,
                  spawnLog, spawnAge, expired >>

\* A request that meets the validation contract arrives.
Submit(r) == Arrive(r, { ValidRequest })

\* Any request arrives.
SubmitAny(r) == Arrive(r, Arrivals)

\* The handler reaches its second select and blocks on req.resCh and ctx.Done().
HandlerWait(r) ==
  /\ ~panicked
  /\ hpc[r] = "accepted"
  /\ hpc' = [hpc EXCEPT ![r] = "wait"]
  /\ UNCHANGED << cfgVars, fnVars, tickIn, tickPending, reqCh, dpc, held, ttl, resp,
                  nResp, wrkVars, panicked, hstVars >>

\* ctx.Done() is closed once the deadline is reached.
CtxDone(r) == ttl[r] <= 0

\* Mutant of HandlerTimeout: a handler that times out takes its record back
\* out of the queue.
HandlerTimeout_Withdraws(r) ==
  /\ ~panicked
  /\ hpc[r] = "wait"
  /\ CtxDone(r)
  /\ SendResponse(r, RequestTimeout)
  /\ reqCh' = SelectSeq(reqCh, LAMBDA q : q # r)
  /\ UNCHANGED << cfgVars, fnVars, tickIn, tickPending, dpc, held,
                  wrkVars, panicked, hstVars >>

\* case <-ctx.Done(): 408
HandlerTimeout(r) ==
  /\ ~panicked
  /\ hpc[r] = "wait"
  /\ CtxDone(r)
  /\ SendResponse(r, RequestTimeout)
  /\ UNCHANGED << cfgVars, fnVars, tickIn, tickPending, reqCh, dpc, held,
                  wrkVars, panicked, hstVars >>

\* ----------------------------------------------------- handleRequests
\* Mutant of Oldest: the receive returns the newest record and drops the oldest.
Oldest_Newest(q) == q[Len(q)]

\* The record a receive takes from the channel's buffer.
Oldest(q) == Head(q)

\* Mutant of Rest: the receive leaves the record in the buffer.
Rest_Keep(q) == q

\* What a receive leaves in the channel's buffer.
Rest(q) == Tail(q)

\* Mutant of DispatchRecv: the loop starts its next cycle only when no adapter
\* call is under way.
DispatchRecv_WaitsForCalls ==
  /\ ~panicked
  /\ dpc = "recv"
  /\ \A r \in Reqs : ipc[r] # "calling"
  /\ IF reqCh # << >>
       THEN /\ held' = Oldest(reqCh)
            /\ reqCh' = Rest(reqCh)
            /\ dpc' = "tick"
       ELSE /\ dpc' = "parked"
            /\ UNCHANGED << held, reqCh >>
  /\ UNCHANGED << cfgVars, fnVars, tickIn, tickPending, hpc, ttl, resp, nResp,
                  wrkVars, panicked, hstVars >>

\* for req := range s.reqCh: take the oldest record, or block on the empty channel.
DispatchRecv ==
  /\ ~panicked
  /\ dpc = "recv"
  /\ IF reqCh # << >>
       THEN /\ held' = Oldest(reqCh)
            /\ reqCh' = Rest(reqCh)
            /\ dpc' = "tick"
       ELSE /\ dpc' = "parked"
            /\ UNCHANGED << held, reqCh >>
  /\ UNCHANGED << cfgVars, fnVars, tickIn, tickPending, hpc, ttl, resp, nResp,
                  wrkVars, panicked, hstVars >>

\* Mutant of TickReady: the loop does not wait for the ticker.
TickReady_NoWait == TRUE

\* <-ticker: a tick is waiting in the ticker's channel.
TickReady == tickPending

\* Mutant of DispatchTick: a record whose deadline has passed is dropped
\* instead of getting a worker.
DispatchTick_SkipsExpired ==
  /\ ~panicked
  /\ dpc = "tick"
  /\ TickReady
  /\ tickPending' = FALSE
  /\ IF CtxDone(held)
       THEN UNCHANGED << wpc, res, ipc, calls, spawnLog, spawnAge >>
       ELSE /\ wpc' = [wpc EXCEPT ![held] = "select"]
            /\ IF ~messageClient
                 THEN /\ res' = [res EXCEPT ![held] = ClientNotSet]
                      /\ ipc' = [ipc EXCEPT ![held] = "closing"]
                      /\ UNCHANGED calls
                 ELSE /\ ipc' = [ipc EXCEPT ![held] = "calling"]
                      /\ calls' = [calls EXCEPT ![held] = @ + 1]
                      /\ UNCHANGED res
            /\ spawnLog' = Append(spawnLog, held)
            /\ spawnAge' = [spawnAge EXCEPT ![held] = 0]
  /\ dpc' = "recv"
  /\ held' = NoReq
  /\ UNCHANGED << cfgVars, fnVars, tickIn, reqCh, hpc, ttl, resp, nResp, done,
                  panicked, acceptLog, failed, expired >>

\* Mutant of DispatchTick: the ticker has kept every tick of the idle period,
\* so the receive leaves a tick behind.
DispatchTick_TicksPileUp ==
  /\ ~panicked
  /\ dpc = "tick"
  /\ TickReady
  /\ UNCHANGED tickPending
  /\ wpc' = [wpc EXCEPT ![held] = "select"]
  /\ IF ~messageClient
       THEN /\ res' = [res EXCEPT ![held] = ClientNotSet]
            /\ ipc' = [ipc EXCEPT ![held] = "closing"]
            /\ UNCHANGED calls
       ELSE /\ ipc' = [ipc EXCEPT ![held] = "calling"]
            /\ calls' = [calls EXCEPT ![held] = @ + 1]
            /\ UNCHANGED res
  /\ spawnLog' = Append(spawnLog, held)
  /\ spawnAge' = [spawnAge EXCEPT ![held] = 0]
  /\ dpc' = "recv"
  /\ held' = NoReq
  /\ UNCHANGED << cfgVars, fnVars, tickIn, reqCh, hpc, ttl, resp, nResp, done,
                  panicked, acceptLog, failed, expired >>

\* <-ticker; go s.processRequest(req).  The worker makes done and res, starts
\* its background goroutine and blocks in its select; the background goroutine
\* runs up to the adapter call, or up to its return when no client is set.
DispatchTick ==
  /\ ~panicked
  /\ dpc = "tick"
  /\ TickReady
  /\ tickPending' = FALSE
  /\ wpc' = [wpc EXCEPT ![held] = "select"]
  /\ IF ~messageClient
       THEN /\ res' = [res EXCEPT ![held] = ClientNotSet]
            /\ ipc' = [ipc EXCEPT ![held] = "closing"]
            /\ UNCHANGED calls
       ELSE /\ ipc' = [ipc EXCEPT ![held] = "calling"]
            /\ calls' = [calls EXCEPT ![held] = @ + 1]
            /\ UNCHANGED res
  /\ spawnLog' = Append(spawnLog, held)
  /\ spawnAge' = [spawnAge EXCEPT ![held] = 0]
  /\ dpc' = "recv"
  /\ held' = NoReq
  /\ UNCHANGED << cfgVars, fnVars, tickIn, reqCh, hpc, ttl, resp, nResp, done,
                  panicked, acceptLog, failed, expired >>

\* ----------------------------------------------------- processRequest
\* messageClient.createMessage returns and the result is classified into res.
AdapterReturn(r) ==
  /\ ~panicked
  /\ ipc[r] = "calling"
  /\ IF Panics(provider)
       THEN /\ panicked' = TRUE
            /\ UNCHANGED << res, ipc >>
       ELSE /\ res' = [res EXCEPT ![r] = Classify(provider)]
            /\ ipc' = [ipc EXCEPT ![r] = "closing"]
            /\ UNCHANGED panicked
  /\ UNCHANGED << cfgVars, fnVars, tickIn, tickPending, reqCh, dpc, held, hpc, ttl,
                  resp, nResp, wpc, done, calls, hstVars >>

\* defer close(done)
CloseDone(r) ==
  /\ ~panicked
  /\ ipc[r] = "closing"
  /\ done' = [done EXCEPT ![r] = TRUE]
  /\ ipc' = [ipc EXCEPT ![r] = "exit"]
  /\ UNCHANGED << cfgVars, fnVars, tickIn, tickPending, reqCh, dpc, held, hpc, ttl,
                  resp, nResp, wpc, res, calls, panicked, hstVars >>

\* The handler is blocked receiving on req.resCh.
HandlerReceiving(r) == hpc[r] = "wait"

\* Mutant of HasDefault: the worker's send has no default branch.
HasDefault_No == FALSE

\* The worker's send sits in a select with a default branch.
HasDefault == TRUE

\* Mutant of WorkerDone: every worker sends on the channel of the first record
\* accepted.
WorkerDone_SharedChannel(r) ==
  /\ ~panicked
  /\ wpc[r] = "select"
  /\ done[r]
  /\ IF HandlerReceiving(Head(acceptLog))
       THEN SendResponse(Head(acceptLog), res[r])
       ELSE UNCHANGED << hpc, resp, nResp, ttl >>
  /\ wpc' = [wpc EXCEPT ![r] = "exit"]
  /\ UNCHANGED << cfgVars, fnVars, tickIn, tickPending, reqCh, dpc, held, ipc,
                  done, res, calls, panicked, hstVars >>

\* Mutant of WorkerDone: the worker takes res as soon as the adapter call has
\* returned, without waiting for done to be closed.
WorkerDone_ReadsBeforeClose(r) ==
  /\ ~panicked
  /\ wpc[r] = "select"
  /\ done[r] \/ ipc[r] = "closing"
  /\ IF HandlerReceiving(r)
       THEN SendResponse(r, res[r])
       ELSE UNCHANGED << hpc, resp, nResp, ttl >>
  /\ wpc' = [wpc EXCEPT ![r] = "exit"]
  /\ UNCHANGED << cfgVars, fnVars, tickIn, tickPending, reqCh, dpc, held, ipc,
                  done, res, calls, panicked, hstVars >>

\* case <-done: select { case req.resCh <- res: ... default: ... }
WorkerDone(r) ==
  /\ ~panicked
  /\ wpc[r] = "select"
  /\ done[r]
  /\ HandlerReceiving(r) \/ HasDefault
  /\ IF HandlerReceiving(r)
       THEN SendResponse(r, res[r])
       ELSE UNCHANGED << hpc, resp, nResp, ttl >>
  /\ wpc' = [wpc EXCEPT ![r] = "exit"]
  /\ UNCHANGED << cfgVars, fnVars, tickIn, tickPending, reqCh, dpc, held, ipc,
                  done, res, calls, panicked, hstVars >>

\* Mutant of WorkerTimeout: the deadline branch sends res on its way out.
WorkerTimeout_Sends(r) ==
  /\ ~panicked
  /\ wpc[r] = "select"
  /\ CtxDone(r)
  /\ IF HandlerReceiving(r)
       THEN SendResponse(r, res[r])
       ELSE UNCHANGED << hpc, resp, nResp, ttl >>
  /\ wpc' = [wpc EXCEPT ![r] = "exit"]
  /\ UNCHANGED << cfgVars, fnVars, tickIn, tickPending, reqCh, dpc, held,
                  ipc, done, res, calls, panicked, hstVars >>

\* Mutant of WorkerTimeout: the deadline branch is taken only once the adapter
\* call has returned.
WorkerTimeout_WaitsForCall(r) ==
  /\ ~panicked
  /\ wpc[r] = "select"
  /\ CtxDone(r)
  /\ ipc[r] # "calling"
  /\ wpc' = [wpc EXCEPT ![r] = "exit"]
  /\ UNCHANGED << cfgVars, fnVars, tickIn, tickPending, reqCh, dpc, held, hpc, ttl,
                  resp, nResp, ipc, done, res, calls, panicked, hstVars >>

\* case <-req.ctx.Done(): log only
WorkerTimeout(r) ==
  /\ ~panicked
  /\ wpc[r] = "select"
  /\ CtxDone(r)
  /\ wpc' = [wpc EXCEPT ![r] = "exit"]
  /\ UNCHANGED << cfgVars, fnVars, tickIn, tickPending, reqCh, dpc, held, hpc, ttl,
                  resp, nResp, ipc, done, res, calls, panicked, hstVars >>

\* ---------------------------------------------------------------- time
\* Some goroutine can take a step without waiting for a timer, a channel
\* peer, a new request or the adapter.
Runnable ==
  /\ ~panicked
  /\ \/ dpc = "recv"
     \/ dpc = "tick" /\ TickReady
     \/ \E r \in Reqs :
          \/ hpc[r] = "accepted"
          \/ hpc[r] = "wait" /\ CtxDone(r)
          \/ ipc[r] = "closing"
          \/ wpc[r] = "select" /\ done[r] /\ (HandlerReceiving(r) \/ HasDefault)
          \/ wpc[r] = "select" /\ CtxDone(r)

\* Spawn ages are kept up to the longest window NReq workers can overfill.
AgeCap == (NReq - 2) * throttleRate + 1

\* One time unit passes.  time.Tick(s.throttleRate): a tick is sent every
\* throttleRate; the channel holds one tick and a tick sent while it is full
\* is dropped.
Advance ==
  /\ ~Runnable
  /\ tickIn' = IF tickIn = 1 THEN throttleRate ELSE tickIn - 1
  /\ tickPending' = (tickPending \/ tickIn = 1)
  /\ ttl' = [r \in Reqs |->
       IF hpc[r] \in {"accepted", "wait"} /\ ttl[r] >= 0 THEN ttl[r] - 1 ELSE ttl[r]]
  /\ spawnAge' = [r \in Reqs |->
       IF spawnAge[r] < 0 \/ spawnAge[r] >= AgeCap THEN spawnAge[r] ELSE spawnAge[r] + 1]
  /\ expired' = [r \in Reqs |->
       \/ expired[r]
       \/ resp[r] = RequestTimeout
       \/ hpc[r] \in {"accepted", "wait"} /\ ttl[r] <= 0]
  /\ UNCHANGED << cfgVars, fnVars, reqCh, dpc, held, hpc, resp, nResp, wrkVars,
                  panicked, acceptLog, spawnLog, failed >>

Next ==
  \/ \E r \in Reqs : Submit(r)
  \/ \E r \in Reqs : HandlerWait(r)
  \/ \E r \in Reqs : HandlerTimeout(r)
  \/ DispatchRecv
  \/ DispatchTick
  \/ \E r \in Reqs : AdapterReturn(r)
  \/ \E r \in Reqs : CloseDone(r)
  \/ \E r \in Reqs : WorkerDone(r)
  \/ \E r \in Reqs : WorkerTimeout(r)
  \/ Advance

Spec == Init /\ [][Next]_vars

\* The Go scheduler runs every runnable goroutine and time passes: a step is
\* taken whenever one is possible.
FairSpec == Spec /\ WF_vars(Next)

\* The server under traffic that includes requests failing the checks.
MixedNext ==
  \/ \E r \in Reqs : SubmitAny(r)
  \/ \E r \in Reqs : HandlerWait(r)
  \/ \E r \in Reqs : HandlerTimeout(r)
  \/ DispatchRecv
  \/ DispatchTick
  \/ \E r \in Reqs : AdapterReturn(r)
  \/ \E r \in Reqs : CloseDone(r)
  \/ \E r \in Reqs : WorkerDone(r)
  \/ \E r \in Reqs : WorkerTimeout(r)
  \/ Advance

MixedSpec == Init /\ [][MixedNext]_vars

\* The first instant of the run: no time has passed since Run().
FirstInstant == tickIn = throttleRate /\ ~tickPending /\ spawnLog = << >>

\* A valid request arrives at a server that has just been started.
SubmitAtStart(r) == FirstInstant /\ Submit(r)

\* The server when all its traffic arrives in the instant it is started.
FreshNext ==
  \/ \E r \in Reqs : SubmitAtStart(r)
  \/ \E r \in Reqs : HandlerWait(r)
  \/ \E r \in Reqs : HandlerTimeout(r)
  \/ DispatchRecv
  \/ DispatchTick
  \/ \E r \in Reqs : AdapterReturn(r)
  \/ \E r \in Reqs : CloseDone(r)
  \/ \E r \in Reqs : WorkerDone(r)
  \/ \E r \in Reqs : WorkerTimeout(r)
  \/ Advance

FreshSpec == Init /\ [][FreshNext]_vars

\* ------------------------------------------------- functions on their own
\* sms.defaultBaseURL.  A URL or a path is the sequence of its segments and
\* of the slashes around them.
defaultBaseURL == << "https:", "/", "/", "rest.messagebird.com" >>

\* strings.HasPrefix(s, prefix)
HasPrefix(s, prefix) ==
  Len(s) >= Len(prefix) /\ SubSeq(s, 1, Len(prefix)) = prefix

\* Mutant of BaseURL: an empty base URL is left empty.
BaseURL_NoDefault(baseURL) == baseURL

\* Client.URL: what it leaves in c.baseURL.
BaseURL(baseURL) == IF baseURL = << >> THEN defaultBaseURL ELSE baseURL

\* Client.URL: the value it returns.
URL(baseURL, path) ==
  BaseURL(baseURL) \o (IF ~HasPrefix(path, << "/" >>) THEN << "/" >> \o path ELSE path)

\* Options.BaseURL values and paths: with and without slashes at the joint.
BaseURLs ==
  { << >>, << "https:", "/", "/", "example.com" >>,
    << "https:", "/", "/", "example.com", "/" >> }

Paths ==
  { << >>, << "messages" >>, << "/", "messages" >>, << "/", "/", "messages" >>,
    << "messages", "/", "e8077d80" >> }

\* Calls made on one Client value.
URLCalls == 2

\* Every way a call of the provider can go.
Replies ==
  { Reply(f, code, id, items, errors) :
      f \in {"none", "request", "transport", "read", "decode", "decodeErrors"},
      code \in {200, 201, 401, 500},
      id \in {"", "e8077d803532c0b5937c639b60216938"},
      items \in { << >>, << MessageItem(31612345, "sent"), MessageItem(31698765, "scheduled") >> },
      errors \in { << >>, << MessageError(2, "Request not allowed (incorrect access_key)"),
                             MessageError(9, "no (correct) recipients found") >> } }

\* The calls under test: the handler's checks on a request, URL on a client,
\* the adapter's call of the provider.
Calls ==
  { [fn |-> "createMessage", in |-> in] : in \in HTTPRequests } \cup
  { [fn |-> "URL", baseURL |-> b, path |-> p] : b \in BaseURLs, p \in Paths } \cup
  { [fn |-> "Client.createMessage", reply |-> p] : p \in Replies }

FnInit ==
  /\ ServerInit
  /\ call \in Calls
  /\ ret = << >>

\* The handler runs its checks on the request.
CheckRequest ==
  /\ call.fn = "createMessage"
  /\ ret = << >>
  /\ ret' = << Validate(call.in) >>
  /\ UNCHANGED << cfgVars, call, tickIn, tickPending, reqCh, dpc, held, hpc, ttl,
                  resp, nResp, wrkVars, panicked, hstVars >>

\* c.URL(path)
CallURL ==
  /\ call.fn = "URL"
  /\ Len(ret) < URLCalls
  /\ ret' = Append(ret, URL(call.baseURL, call.path))
  /\ call' = [call EXCEPT !.baseURL = BaseURL(call.baseURL)]
  /\ UNCHANGED << cfgVars, tickIn, tickPending, reqCh, dpc, held, hpc, ttl,
                  resp, nResp, wrkVars, panicked, hstVars >>

\* c.createMessage(req)
CallCreateMessage ==
  /\ call.fn = "Client.createMessage"
  /\ ret = << >>
  /\ ret' = << CreateMessage(call.reply) >>
  /\ UNCHANGED << cfgVars, call, tickIn, tickPending, reqCh, dpc, held, hpc, ttl,
                  resp, nResp, wrkVars, panicked, hstVars >>

FnNext ==
  \/ CheckRequest
  \/ CallURL
  \/ CallCreateMessage

FnSpec == FnInit /\ [][FnNext]_vars

\* ================================================================ claims
Accepted(r) == \E i \in 1..Len(acceptLog) : acceptLog[i] = r

Pending(r) == hpc[r] \in {"accepted", "wait"}

InQueue(r) == \E i \in 1..Len(reqCh) : reqCh[i] = r

\* The responses a worker can produce.
WorkerOutcomes ==
  { ClientNotSet } \cup { Classify(v) : v \in { w \in AdapterResults : ~Panics(w) } }

\* C1: in every reachable state the admission queue holds at most B records.
C1_QueueWithinCapacity == Len(reqCh) <= buf

\* C1 witness: a buffered queue is full while its handlers are still waiting.
C1_Witness_QueueFull ==
  /\ buf = 2
  /\ Len(reqCh) = buf
  /\ \A i \in 1..Len(reqCh) : hpc[reqCh[i]] = "wait"

\* C2 as stated: a submission made while the queue holds B records is
\* answered 429 in the same step, the queue and the dispatch loop are left
\* as they were, and a rejected record never gets a worker or an adapter call.
C2_Original_FullQueueRejects ==
  [][ \A r \in Reqs :
        (hpc[r] = "idle" /\ hpc'[r] # "idle" /\ Len(reqCh) = buf)
          => /\ hpc'[r] = "done"
             /\ resp'[r] = TooManyRequests
             /\ reqCh' = reqCh
             /\ held' = held ]_vars

\* C2 amended: a submission made while the queue holds B records and the
\* dispatch loop is not blocked receiving on it is answered 429 in the same
\* step, the queue and the dispatch loop are left as they were, and a
\* rejected record never gets a worker or an adapter call.
C2_FullQueueRejects ==
  [][ \A r \in Reqs :
        /\ (hpc[r] = "idle" /\ hpc'[r] # "idle" /\ Len(reqCh) = buf /\ dpc # "parked")
             => /\ hpc'[r] = "done"
                /\ resp'[r] = TooManyRequests
                /\ nResp'[r] = 1
                /\ reqCh' = reqCh
                /\ held' = held
                /\ dpc' = dpc
        /\ resp'[r] = TooManyRequests
             => /\ ~InQueue(r)'
                /\ held' # r
                /\ wpc'[r] = "none"
                /\ ipc'[r] = "none"
                /\ calls'[r] = 0 ]_vars

\* C2 witness: a request was rejected while a full buffered queue was waiting
\* for its tick, and later requests of the queue got their workers.
C2_Witness_Rejected ==
  \E r \in Reqs :
    /\ resp[r] = TooManyRequests
    /\ buf >= 1
    /\ \E q \in Reqs : q > r /\ wpc[q] # "none"

\* C3 as stated, for a buffered queue: when B+1 requests are submitted with no
\* tick between them, exactly one is answered 429 and the other B are accepted.
C3_BurstRejectsExactlyOne ==
  (FirstInstant /\ buf >= 1 /\ Cardinality({ r \in Reqs : hpc[r] # "idle" }) = buf + 1)
     => /\ Cardinality({ r \in Reqs : resp[r] = TooManyRequests }) = 1
        /\ Cardinality({ r \in Reqs : Accepted(r) }) = buf

\* C4: a handler that has returned has written exactly one response; for an
\* accepted request it is a worker outcome or the timeout; a handler that
\* has not returned has written none.
C4_ExactlyOneOutcome ==
  \A r \in Reqs :
    /\ nResp[r] <= 1
    /\ hpc[r] = "done" <=> nResp[r] = 1
    /\ (hpc[r] = "done" /\ Accepted(r))
         => resp[r] \in WorkerOutcomes \cup { RequestTimeout }
    /\ (hpc[r] = "done" /\ ~Accepted(r)) => resp[r] = TooManyRequests

\* C4 witness: a handler answered with the timeout and its worker saw the
\* adapter's result afterwards: the late outcome found nobody.
C4_Witness_TimeoutThenLateOutcome ==
  \E r \in Reqs :
    /\ resp[r] = RequestTimeout
    /\ nResp[r] = 1
    /\ calls[r] = 1
    /\ done[r]
    /\ res[r].Success

\* C5 as stated: no accepted request is left without its response once its
\* deadline has passed.
C5_ResponseWithinDeadline == \A r \in Reqs : Pending(r) => ttl[r] >= 0

\* C6 as stated: the 408 response is written at the deadline and not before,
\* and time does not pass the deadline of an accepted request that is still
\* without an outcome: at that instant it is answered 408 (or receives the
\* outcome its worker sends at that very instant).
C6_TimeoutAtDeadline ==
  [][ \A r \in Reqs :
        /\ (resp[r] # RequestTimeout /\ resp'[r] = RequestTimeout) => ttl[r] = 0
        /\ (Pending(r) /\ ttl[r] = 0)
             => \/ Pending(r)' /\ ttl'[r] = 0
                \/ hpc'[r] = "done" /\ resp'[r] \in { RequestTimeout, res[r] } ]_vars

\* C7: every window of length k*T holds at most k+1 worker spawns.
C7_Pacing ==
  \A k \in 1..NReq :
    Cardinality({ r \in Reqs : spawnAge[r] >= 0 /\ spawnAge[r] <= k * throttleRate }) <= k + 1

\* C7 witness: after an idle period the loop used the tick it had kept and
\* the next tick: two workers were spawned less than T apart, a third waits.
C7_Witness_TwoSpawnsWithinT ==
  /\ throttleRate = 2
  /\ \E a, b \in Reqs : spawnAge[a] = 1 /\ spawnAge[b] = 0
  /\ \E c \in Reqs : Accepted(c) /\ wpc[c] = "none"

\* C8: an accepted record that has no worker yet gets one, unless the
\* process dies.
C8_AcceptedEventuallyDispatched ==
  \A r \in Reqs : (Accepted(r) /\ wpc[r] = "none") ~> (wpc[r] # "none" \/ panicked)

\* C8 witness: a record waited in the buffer behind two others and got its worker.
C8_Witness_LastOfQueueDispatched ==
  /\ Len(spawnLog) = 3
  /\ buf = 2
  /\ wpc[spawnLog[3]] # "none"
  /\ ~panicked

\* C9: workers are spawned in the order their records were accepted.
C9_Fifo ==
  /\ Len(spawnLog) <= Len(acceptLog)
  /\ \A i \in 1..Len(spawnLog) : spawnLog[i] = acceptLog[i]

\* C9 witness: two records waited in the buffer together and both got workers.
C9_Witness_TwoQueuedSpawned ==
  /\ buf = 2
  /\ Len(spawnLog) >= 3
  /\ spawnAge[spawnLog[1]] > spawnAge[spawnLog[3]]

\* The worker of r was spawned before the deadline of r.
SpawnedBeforeDeadline(r) == spawnAge[r] >= 0 /\ (spawnAge[r] > 0 \/ ttl[r] > 0)

\* C10 as stated: with no client the worker makes no adapter call and its
\* result is the 500 "API client not set"; a handler whose worker was spawned
\* before the deadline answers with that result.
C10_NilClientInternalFailure ==
  [][ ~messageClient =>
        \A r \in Reqs :
          /\ calls'[r] = 0
          /\ ipc'[r] \in {"closing", "exit"} => res'[r] = ClientNotSet
          /\ (Pending(r) /\ hpc'[r] = "done" /\ SpawnedBeforeDeadline(r))
               => resp'[r] = ClientNotSet ]_vars

\* The adapter call of r returns in this step.
AdapterReturns(r) == ipc[r] = "calling" /\ (ipc'[r] # "calling" \/ panicked')

\* C11 as stated: when the adapter returns, the worker's result is the one
\* outcome of the adapter's result: the 500 "API request failed" for an error;
\* for a success payload success = true with the provider's status, the id,
\* originator and message of the payload and the recipient and status of its
\* first recipient; for an error payload success = false with the provider's
\* status and the description of the first error.
C11_ClassifiesAdapterResult ==
  [][ \A r \in Reqs :
        AdapterReturns(r) =>
          /\ ~panicked'
          /\ ipc'[r] = "closing"
          /\ provider.kind = "err" => res'[r] = RequestFailed
          /\ provider.kind = "created" =>
                /\ res'[r].Success
                /\ res'[r].Error = ""
                /\ res'[r].statusCode = provider.statusCode
                /\ res'[r].Data = Content(provider.ID, provider.items[1].Recipient,
                                         provider.Originator, provider.Body,
                                         provider.items[1].Status)
          /\ provider.kind = "errors" =>
                /\ ~res'[r].Success
                /\ res'[r].statusCode = provider.statusCode
                /\ res'[r].Error = provider.errors[1].Description
                /\ res'[r].Data = ZeroContent ]_vars

\* C12 as stated: no goroutine of the process panics, whatever the provider
\* adapter returns.
C12_NeverPanics == ~panicked

\* The number of decimal digits of n.
Digits(n) == Len(n.digits)

\* The length of a string in characters.
Chars(s) == s.ascii + s.wide

\* The validation contract of the spec.
MeetsContract(in) ==
  /\ Digits(in.Recipient) >= 7 /\ Digits(in.Recipient) <= 15
  /\ Chars(in.Originator) >= 1 /\ Chars(in.Originator) <= 11
  /\ Chars(in.Message) >= 1 /\ Chars(in.Message) <= 160

\* The handler has run its checks on the request under test.
Checked == call.fn = "createMessage" /\ ret # << >>

\* C13 as stated: a decodable POST passes the checks exactly when it meets the
\* validation contract (7 to 15 decimal digits, originator of 1 to 11,
\* message of 1 to 160), and is answered 422 otherwise.
C13_ValidationContract ==
  (Checked /\ call.in.Method = "POST" /\ call.in.decodes)
     => IF MeetsContract(call.in) THEN ret[1] = ZeroResponse
                                  ELSE ret[1].statusCode = 422

\* C14: a request that fails a check is answered in the step it arrives in
\* with the response of that check; that step leaves the queue and the
\* dispatch loop as they were, and the request never has a deadline, a place
\* in the queue, a worker or an adapter call.
C14_InvalidNeverReachesCore ==
  [][ \A r \in Reqs :
        /\ (~failed[r] /\ failed'[r])
             => /\ reqCh' = reqCh
                /\ held' = held
                /\ dpc' = dpc
                /\ acceptLog' = acceptLog
                /\ ttl' = ttl
                /\ wrkVars' = wrkVars
        /\ failed'[r]
             => /\ hpc'[r] = "done"
                /\ nResp'[r] = 1
                /\ resp'[r].statusCode \in {405, 400, 422}
                /\ ttl'[r] = 0
                /\ ~Accepted(r)'
                /\ ~InQueue(r)'
                /\ held' # r
                /\ wpc'[r] = "none"
                /\ ipc'[r] = "none"
                /\ calls'[r] = 0 ]_vars

\* C14 witness: requests failing the method check, the decoding and a field
\* check were answered while an accepted record sat in the queue.
C14_Witness_RejectedBesideQueue ==
  /\ \E r \in Reqs : failed[r] /\ resp[r].statusCode = 422
  /\ \E r \in Reqs : failed[r] /\ resp[r].statusCode \in {400, 405}
  /\ \E a \in Reqs : InQueue(a) /\ hpc[a] = "wait"

\* The response the order of checks of the claim gives a request, the zero
\* Response if none applies.
FirstFailing(in) ==
  IF in.Method # "POST"
    THEN Response(405, FALSE, "Request not allowed (invalid HTTP method)")
  ELSE IF ~in.decodes
    THEN Response(400, FALSE, "Bad request (invalid payload json structure)")
  ELSE IF Digits(in.Recipient) < 7 \/ Digits(in.Recipient) > 15
    THEN Response(422, FALSE, "Invalid parameter (recipient value is out of bounds)")
  ELSE IF Chars(in.Originator) = 0
    THEN Response(422, FALSE, "Missing parameter (originator value is not present)")
  ELSE IF Chars(in.Originator) > 11
    THEN Response(422, FALSE, "Invalid parameter (originator value is to long)")
  ELSE IF Chars(in.Message) = 0
    THEN Response(422, FALSE, "Missing parameter (message value is not present)")
  ELSE IF Chars(in.Message) > 160
    THEN Response(422, FALSE, "Invalid parameter (message value is to long)")
  ELSE ZeroResponse

\* C15 as stated: the response to a request that fails a check is the one of
\* the first check it fails, in the order method, decoding, recipient bounds,
\* originator missing, originator too long, message missing, message too long.
C15_FirstFailingCheckDecides ==
  (Checked /\ FirstFailing(call.in) # ZeroResponse) => ret[1] = FirstFailing(call.in)

\* How often r occurs in a log.
Count(log, r) == Cardinality({ i \in 1..Len(log) : log[i] = r })

\* C16: a record is in the queue or in the dispatch loop at most once and
\* only before it has a worker, it gets at most one worker, only an accepted
\* record gets one, and a worker makes at most one adapter call, whatever
\* the outcome of the request.
C16_ConsumedOnce ==
  \A r \in Reqs :
    /\ Count(acceptLog, r) <= 1
    /\ Count(spawnLog, r) <= 1
    /\ Count(reqCh, r) + (IF held = r THEN 1 ELSE 0) + Count(spawnLog, r) <= 1
    /\ Count(spawnLog, r) = 1 => Accepted(r)
    /\ wpc[r] # "none" <=> Count(spawnLog, r) = 1
    /\ calls[r] <= 1
    /\ calls[r] = 1 => wpc[r] # "none"

\* C16 witness: three records were accepted and each got its worker; one
\* request ended in the timeout and one in a failure outcome; every worker
\* is gone.
C16_Witness_FailuresNotRetried ==
  /\ Len(spawnLog) = 3
  /\ \A r \in Reqs : wpc[r] = "exit" /\ ipc[r] = "exit" /\ hpc[r] = "done"
  /\ \E r \in Reqs : resp[r] = RequestTimeout
  /\ \E r \in Reqs : resp[r].statusCode \in {401, 500}

\* The path without its leading slash, if it has one.
Unslashed(path) == IF path # << >> /\ Head(path) = "/" THEN Tail(path) ELSE path

\* C17: every call of URL on a client returns the base URL (the configured
\* one, or https://rest.messagebird.com when none is configured), one slash,
\* and the path without its leading slash if it has one; a second call
\* returns what the first returned.
C17_URLJoinsBaseAndPath ==
  (call.fn = "URL" /\ ret # << >>)
     => LET base == IF call.baseURL = << >>
                      THEN << "https:", "/", "/", "rest.messagebird.com" >>
                      ELSE call.baseURL
        IN  /\ \A i \in 1..Len(ret) : ret[i] = base \o << "/" >> \o Unslashed(call.path)
            /\ \A i \in 1..Len(ret) : ret[i] = ret[1]

\* C17 witness: URL was called twice on a client without a base URL, with a
\* path that has a leading slash.
C17_Witness_DefaultBaseTwice ==
  /\ call.fn = "URL"
  /\ call.path = << "/", "messages" >>
  /\ Len(ret) >= 2
  /\ ret[2] = << "https:", "/", "/", "rest.messagebird.com", "/", "messages" >>

\* C18 as stated: a worker that takes its done branch before the deadline of
\* its record hands its result to the handler, which answers with it.
C18_OutcomeBeforeDeadlineDelivered ==
  [][ \A r \in Reqs :
        (wpc[r] = "select" /\ wpc'[r] = "exit" /\ done[r] /\ ttl[r] > 0)
          => /\ hpc'[r] = "done"
             /\ resp'[r] = res[r] ]_vars

\* C19: a worker whose result is ready can take its send step at once,
\* wherever the handler is, and that step ends the worker.
C19_DeliveryNeverBlocks ==
  \A r \in Reqs :
    (wpc[r] = "select" /\ done[r] /\ ~panicked)
       => ENABLED (WorkerDone(r) /\ wpc'[r] = "exit")

\* C19 witness: the handler has answered with the timeout and returned, and
\* the worker is at its send with a result.
C19_Witness_SendToDepartedHandler ==
  \E r \in Reqs :
    /\ wpc[r] = "select"
    /\ done[r]
    /\ hpc[r] = "done"
    /\ resp[r] = RequestTimeout

\* C20: a worker that leaves its select before its result is ready (the
\* deadline branch) changes nothing for the handler; a worker that has left
\* stays gone; and a response written while the worker is not in its select
\* is the handler's own timeout or rejection, never a worker's result.
C20_DeadlineBranchSendsNothing ==
  [][ \A r \in Reqs :
        /\ (wpc[r] = "select" /\ wpc'[r] = "exit" /\ ~done[r])
             => /\ resp'[r] = resp[r]
                /\ nResp'[r] = nResp[r]
                /\ hpc'[r] = hpc[r]
        /\ wpc[r] = "exit" => wpc'[r] = "exit"
        /\ (wpc[r] # "select" /\ nResp'[r] # nResp[r])
             => resp'[r] \in { RequestTimeout, TooManyRequests } ]_vars

\* C20 witness: the worker has left by the deadline branch (its result was
\* not ready: the adapter call is still in flight) and the caller got the
\* timeout.
C20_Witness_DeadlineBranchTaken ==
  \E r \in Reqs :
    /\ wpc[r] = "exit"
    /\ ipc[r] = "calling"
    /\ ~done[r]
    /\ resp[r] = RequestTimeout

\* C26: the adapter returns the error with status 500 and no payload when
\* building the request, the transport, reading the body or decoding it
\* fails; otherwise a body with a non-empty id as a success payload and any
\* other body as an error payload, both with the provider's status code.
C26_AdapterResult ==
  (call.fn = "Client.createMessage" /\ ret # << >>)
     => LET p == call.reply
            v == ret[1]
        IN  IF \/ p.failure \in {"request", "transport", "read", "decode"}
               \/ p.failure = "decodeErrors" /\ p.id = ""
              THEN /\ v.kind = "err"
                   /\ v.statusCode = 500
                   /\ v.ID = "" /\ v.items = << >> /\ v.errors = << >>
            ELSE IF p.id # ""
              THEN /\ v.kind = "created"
                   /\ v.statusCode = p.statusCode
                   /\ v.ID = p.id /\ v.items = p.items
              ELSE /\ v.kind = "errors"
                   /\ v.statusCode = p.statusCode
                   /\ v.errors = p.errors

\* C26 witness: a reply with status 500 whose body carries an id came back
\* as a success payload, with the status 500.
C26_Witness_IdDecides ==
  /\ call.fn = "Client.createMessage"
  /\ ret # << >>
  /\ call.reply.failure = "none"
  /\ call.reply.statusCode = 500
  /\ ret[1].kind = "created"
  /\ ret[1].statusCode = 500

\* C21 as stated: the dispatch loop pulls a record only after the tick of its
\* cycle has fired; until then the record is in the queue.
C21_TickBeforePull ==
  [][ (held = NoReq /\ held' # NoReq) => tickPending ]_vars

\* C22 as stated: a worker is spawned only on a tick that fired after its
\* record arrived, so never in the instant of the arrival.
C22_NoCreditWhileIdle ==
  [][ \A r \in Reqs :
        (wpc[r] = "none" /\ wpc'[r] # "none") => ttl[r] < reqTimeout ]_vars

\* C23: whatever the number of workers whose adapter call has not returned,
\* the dispatch loop is never held up: at the top of its cycle it can take the
\* next record (or block on the empty queue), and once the tick of its cycle
\* has fired it can spawn the worker of the record it holds.
C23_LoopNeverWaitsOnWorkers ==
  ~panicked
    => /\ dpc = "recv" => ENABLED DispatchRecv
       /\ (dpc = "tick" /\ tickPending) => ENABLED DispatchTick

\* C23 witness: every record got its worker, one per tick, while the adapter
\* calls of all the earlier workers were still under way.
C23_Witness_SpawnedBesideBlockedCalls ==
  /\ Len(spawnLog) = NReq
  /\ \A r \in Reqs : ipc[r] = "calling" /\ calls[r] = 1
  /\ dpc = "parked"

\* C24: a handler's response that is not its own 429 or 408 is written in the
\* step in which the worker of the same record leaves its select by the done
\* branch, and is that worker's result; the step writes no other handler's
\* response, a handler writes at most one response, and a worker that has left
\* its select never sends again.
C24_OwnWorkerSendsOnce ==
  [][ \A r \in Reqs :
        /\ (nResp'[r] # nResp[r] \/ resp'[r] # resp[r])
             => /\ nResp[r] = 0 /\ nResp'[r] = 1
                /\ \A q \in Reqs \ {r} : resp'[q] = resp[q] /\ nResp'[q] = nResp[q]
                /\ \/ resp'[r] \in { TooManyRequests, RequestTimeout }
                   \/ /\ wpc[r] = "select" /\ wpc'[r] = "exit"
                      /\ done[r]
                      /\ hpc[r] = "wait"
                      /\ resp'[r] = res[r]
        /\ wpc[r] = "exit" => wpc'[r] = "exit" ]_vars

\* C24 witness: two callers have received the outcomes of their own workers.
C24_Witness_TwoCallersServed ==
  \E a, b \in Reqs :
    /\ a # b
    /\ resp[a] \in WorkerOutcomes /\ wpc[a] = "exit"
    /\ resp[b] \in WorkerOutcomes /\ wpc[b] = "exit"

\* C25 as stated: no worker is in its select after its record's deadline.
C25_Original_WorkerGoneByDeadline ==
  \A r \in Reqs : wpc[r] = "select" => ~expired[r]

\* C25 amended: a worker's coordinating task leaves its select no later than
\* its record's deadline or, when it was spawned after the deadline, in the
\* instant it was spawned, whether or not the adapter call has returned and
\* whether or not the handler is still waiting; the background task closes
\* the completion marker and ends as soon as the adapter call has returned.
C25_NoTaskOutlivesItsWork ==
  \A r \in Reqs :
    ~panicked
      => /\ (wpc[r] = "select" /\ ttl[r] <= 0)
              => ENABLED WorkerTimeout(r) /\ ~ENABLED Advance
         /\ wpc[r] = "select" => (~expired[r] \/ spawnAge[r] = 0)
         /\ ipc[r] = "closing" => ENABLED CloseDone(r) /\ ~ENABLED Advance

\* C25 witness: a worker spawned after its record's deadline has left its
\* select in the same instant, its adapter call still under way.
C25_Witness_LateWorkerLeftAtOnce ==
  \E r \in Reqs :
    /\ expired[r]
    /\ wpc[r] = "exit"
    /\ spawnAge[r] = 0
    /\ ipc[r] = "calling"

\* C27: of the requests submitted to a freshly started server, none has a
\* worker before the first tick, one ThrottleRate after the start; with
\* ReqTimeout < ThrottleRate each of them that is accepted, a single one
\* included, is answered 408, whatever the adapter returns.
C27_FirstRequestPaced ==
  \A r \in Reqs :
    /\ wpc[r] # "none"
         => (ttl[r] <= reqTimeout - throttleRate \/ resp[r] = RequestTimeout)
    /\ (reqTimeout < throttleRate /\ Accepted(r))
         => /\ Pending(r) => wpc[r] = "none"
            /\ hpc[r] = "done" => resp[r] = RequestTimeout

\* C27 witness: the only request of a fresh server with ReqTimeout <
\* ThrottleRate was answered 408, and the adapter call its worker made
\* afterwards came back with a created message.
C27_Witness_SingleRequestTimesOut ==
  /\ reqTimeout < throttleRate
  /\ hpc[1] = "done" /\ resp[1] = RequestTimeout
  /\ \A r \in Reqs \ {1} : hpc[r] = "idle"
  /\ calls[1] = 1 /\ done[1] /\ res[1].Success

\* C28: the accepted records not yet handed to a worker are the records of
\* the queue and the one the dispatch loop holds: never more than B+1.
C28_UndispatchedWithinBPlusOne ==
  LET waiting == { r \in Reqs : Accepted(r) /\ wpc[r] = "none" }
  IN  /\ Cardinality(waiting) <= buf + 1
      /\ Cardinality(waiting) = Len(reqCh) + (IF held = NoReq THEN 0 ELSE 1)
      /\ \A r \in waiting : InQueue(r) \/ held = r

\* C28 witness: B records fill the queue while the loop holds one more.
C28_Witness_BPlusOneWaiting ==
  /\ buf = 2
  /\ Len(reqCh) = buf
  /\ held # NoReq
  /\ Cardinality({ r \in Reqs : Accepted(r) /\ wpc[r] = "none" }) = buf + 1

\* C29: the step in which a record leaves the dispatch loop starts its worker
\* and, when a client is set, its one adapter call, whether or not the
\* record's deadline has passed; no other step starts an adapter call.
C29_NoDeadlineCheckBeforeCall ==
  [][ \A r \in Reqs :
        /\ (held = r /\ held' # r)
             => /\ wpc[r] = "none" /\ wpc'[r] = "select"
                /\ messageClient => (calls'[r] = 1 /\ ipc'[r] = "calling")
                /\ ~messageClient => (calls'[r] = 0 /\ ipc'[r] = "closing")
        /\ calls'[r] # calls[r] => held = r ]_vars

\* C29 witness: a record whose caller was answered 408 before its tick has
\* just been given a worker, and the adapter call is under way.
C29_Witness_CallForExpiredRecord ==
  \E r \in Reqs :
    /\ expired[r]
    /\ resp[r] = RequestTimeout
    /\ wpc[r] = "select"
    /\ spawnAge[r] = 0
    /\ calls[r] = 1
    /\ ipc[r] = "calling"

\* C30: the queue changes only by a handler's enqueue at its tail and by the
\* dispatch loop's receive at its head; a step that writes a 408 leaves the
\* queue and the dispatch loop as they were.
C30_OnlyTheLoopDequeues ==
  [][ /\ reqCh' # reqCh
           => \/ \E r \in Reqs : hpc[r] = "idle" /\ reqCh' = Append(reqCh, r)
              \/ /\ dpc = "recv" /\ dpc' = "tick"
                 /\ reqCh # << >>
                 /\ held' = Head(reqCh)
                 /\ reqCh' = Tail(reqCh)
      /\ \A r \in Reqs :
           (resp[r] # RequestTimeout /\ resp'[r] = RequestTimeout)
             => reqCh' = reqCh /\ held' = held /\ dpc' = dpc ]_vars

\* C30 witness: the record of a caller already answered 408 fills the queue,
\* and the next request to arrive is rejected with 429.
C30_Witness_TimedOutRecordBlocksSlot ==
  \E a, b \in Reqs :
    /\ buf >= 1
    /\ Len(reqCh) = buf
    /\ InQueue(a)
    /\ resp[a] = RequestTimeout
    /\ hpc[b] = "idle"
    /\ ENABLED (Submit(b) /\ resp'[b] = TooManyRequests)

\* C31: the ticker holds one tick at most: the spawn of a worker takes the
\* tick the ticker held and leaves it empty, so no other worker is spawned in
\* the same instant; a record that finds the tick of an idle period is the
\* only one dispatched without waiting, the next one waits for a new tick.
C31_OneTickKeptOverIdle ==
  [][ \A r \in Reqs :
        (wpc[r] = "none" /\ wpc'[r] # "none")
          => /\ tickPending /\ ~tickPending'
             /\ \A q \in Reqs \ {r} : spawnAge[q] # 0
             /\ \A q \in Reqs \ {r} : (Accepted(q) /\ wpc[q] = "none") => wpc'[q] = "none" ]_vars

\* C31 witness: after an idle period two requests arrived in the same
\* instant; the first got its worker at once with the tick that was kept, the
\* second is held by the loop, the ticker being empty.
C31_Witness_SecondRecordWaits ==
  \E a, b \in Reqs :
    /\ a # b
    /\ Pending(a) /\ ttl[a] = reqTimeout /\ spawnAge[a] = 0 /\ wpc[a] # "none"
    /\ Pending(b) /\ ttl[b] = reqTimeout /\ held = b
    /\ dpc = "tick"
    /\ ~tickPending

\* C32: res is written only by the background goroutine, in a step that
\* precedes its close of done, and never once done is closed; the worker
\* leaves its select by the done branch, the only one that reads res, only
\* when done is closed and the background goroutine has ended; a worker that
\* leaves while done is open hands nothing of res to its handler.
C32_ResultReadAfterClose ==
  [][ \A r \in Reqs :
        /\ res'[r] # res[r]
             => /\ ~done[r] /\ ~done'[r]
                /\ ipc[r] \in {"none", "calling"} /\ ipc'[r] = "closing"
        /\ (~done[r] /\ done'[r]) => (ipc[r] = "closing" /\ res'[r] = res[r])
        /\ (wpc[r] = "select" /\ wpc'[r] = "exit")
             => \/ /\ done[r] /\ ipc[r] = "exit"
                   /\ resp'[r] # resp[r] => resp'[r] = res[r]
                \/ /\ ~done[r] /\ ttl[r] <= 0
                   /\ resp'[r] = resp[r] /\ hpc'[r] = hpc[r] ]_vars

\* C32 witness: one caller got the result its worker read after done was
\* closed; another worker left by the deadline branch, and its background
\* goroutine has since written a result that nobody will read.
C32_Witness_ReadAndUnreadResults ==
  \E a, b \in Reqs :
    /\ a # b
    /\ done[a] /\ resp[a] = res[a] /\ resp[a] \in WorkerOutcomes
    /\ wpc[b] = "exit" /\ ipc[b] = "closing" /\ ~done[b]
    /\ res[b] # ZeroResponse
    /\ resp[b] = RequestTimeout

====
